---- MODULE Spec2Model ----
(***************************************************************************)
(* The arbitrage scanner of sports_bot (market_scanner.py), as a state     *)
(* machine: one scan of a sequence of matches, read bookmaker by bookmaker *)
(* and quote by quote.  The input is the environment's choice at each      *)
(* read, within the class of inputs env names, or, where a scan is to be   *)
(* repeated, held in full in matches.  The variables are the locals of     *)
(* find_arbitrage_opportunities and a record of what was read for the      *)
(* match in hand.  Beside the scan stand a second call of it, a second     *)
(* invocation interleaved with it, and the function of the same name of    *)
(* arbitrage_engine.py.                                                    *)
(*                                                                         *)
(* Around the scan stand its caller run_arbitrage_scan_pipeline, get_odds  *)
(* of odds_api.py with its cache file, main of run_analysis_worker.py with *)
(* the queue of jobs, and main of check_results_worker.py with the table   *)
(* of predictions.  Each has variables and a specification of its own, in  *)
(* which the others do not run.                                            *)
(*                                                                         *)
(* Prices are decimal odds in halves (4 is 2.0, 8 is 4.0, -3 is -1.5), and *)
(* reciprocals are exact integers in units of 1/Unit.                      *)
(***************************************************************************)
EXTENDS Integers, Sequences, FiniteSets, TLC

\* Bounds of the explored inputs.
MaxMatches == 2
MaxBookmakers == 2
MaxQuotes == 4
MaxTicks == 4
MaxJobs == 2
MaxPredictions == 2

\* Outcome names a quote may carry; NoName is a missing or empty name.  The scan
\* never looks into a name, so the names of a match are taken in this order of
\* first appearance: inputs are explored up to a renaming of their outcomes.
NameOrder == <<"A", "B", "C">>
Names == {NameOrder[k] : k \in DOMAIN NameOrder}
NoName == ""

\* Prices a quote may carry, in halves: -1.5, 0, 2.0, 4.0.
Prices == {-3, 0, 4, 8}

\* One whole, in reciprocal units: a common multiple of the nonzero prices.
Unit == 3 * 4

\* 1 / price (the price in halves), exact in units of 1/Unit.
Recip(p) == (2 * Unit) \div p

\* A quote without a price: outcome.get('price') gives None.  It is no price
\* (no quote carries -0.5): Admitted turns it away before any arithmetic.
NoPrice == -1

\* The lists of market keys a bookmaker may carry.
KeyLists == {<<>>, <<"h2h">>, <<"totals">>, <<"totals", "h2h">>, <<"h2h", "totals">>}

VARIABLES
    pc,             \* where the scan stands: "match", "bookie", "outcome", "done", "error"
    mi,             \* matches taken from the input so far; the match in hand
    nb,             \* len(bookmakers) of the match in hand
    bi,             \* bookmakers of the match in hand taken so far; the title of the
                    \* one in hand (titles are distinct: the i-th bookmaker's is i)
    oi,             \* outcomes of the market in hand taken so far (input held in full)
    qn,             \* quotes taken from the input so far, over the whole scan
    teams,          \* home_team and away_team of the match in hand, as line 80 labels it
    market,         \* the key of h2h_market, the market in hand; "none" for None
    best_odds,      \* outcome name -> [price, bookmaker], of the match in hand
    opportunities,  \* the list appended to
    result,         \* the returned list
    h2h,            \* record of the input: bookmakers of the match in hand with an h2h market
    quoted,         \* record of the input: name -> [max, by], the highest price any
                    \* h2h quote of the match in hand gave the name, and the bookmakers quoting it
    passed,         \* record of the input: a bookmaker of the match in hand carried a
                    \* market that is not h2h
    dropped,        \* record of the input: h2h quotes of the match in hand that lacked a
                    \* name or a price
    env,            \* the class of inputs explored, fixed from the start
    matches,        \* the input sequence, where it is held in full (env.stored)
    call,           \* the call of the scan that is running: the first or the second
    first,          \* what the first call returned
    other,          \* the locals of the invocation that waits while this one runs
    engine,         \* the call of arbitrage_engine.find_arbitrage_opportunities
    fetched,        \* run_arbitrage_scan_pipeline: the events get_odds returned, over
                    \* the listed sports in their order
    ei,             \* events of fetched the pipeline is done with
    all_opportunities,  \* the pipeline's list
    report,         \* where the pipeline stands, or how it ended: "ready", "scanning",
                    \* "message" (the text of line 72), "report", "error"
    cache_file,     \* odds_api.py: data/odds_cache.json, as load_cache reads it
    now,            \* datetime.now(), in seconds
    get_odds,       \* for each thread, the frame of its call of get_odds
    threads,        \* the threads that call get_odds, fixed from the start
    queue,          \* run_analysis_worker.py: the status of each job of the queue
                    \* table, "deleted" for a row that is gone
    main,           \* for each run of main, its frame
    inbox,          \* for each job, the messages its chat has received
    ran,            \* for each job, the times a pipeline has run for it
    runs,           \* the runs of main, fixed from the start
    history,        \* check_results_worker.py: the rows of prediction_history, by id
    checker,        \* the frame of main of check_results_worker.py
    seen            \* what main read for the prediction it took last

vars == <<pc, mi, nb, bi, oi, qn, teams, market, best_odds, opportunities, result,
          h2h, quoted, passed, dropped, env, matches, call, first, other, engine,
          fetched, ei, all_opportunities, report, cache_file, now, get_odds, threads,
          queue, main, inbox, ran, runs, history, checker, seen>>

Empty == [n \in {} |-> 0]

----------------------------------------------------------------------------
\* The inputs explored.

\* Read as it comes: matches with both team names, bookmakers with an h2h market
\* or no market, quotes of any price, or none, with or without a name.
Plain ==
    [stored |-> FALSE, pair |-> FALSE, prices |-> Prices \cup {NoPrice},
     nameless |-> TRUE, teamless |-> FALSE, keys |-> {<<>>, <<"h2h">>}]

\* Well-formed quotes only: a name and a positive price.
WellFormed ==
    [Plain EXCEPT !.prices = {p \in Prices : p > 0}, !.nameless = FALSE]

\* Well-formed quotes, in matches that may lack home_team and away_team.
Teamless == [WellFormed EXCEPT !.teamless = TRUE]

\* Well-formed quotes, of bookmakers that may carry markets that are not h2h.
ManyMarkets == [WellFormed EXCEPT !.keys = KeyLists]

\* The input is held in full, to be read more than once.
Stored == [Plain EXCEPT !.stored = TRUE]

\* Held in full, and the second call is of two invocations at once.
StoredPair == [Plain EXCEPT !.stored = TRUE, !.pair = TRUE]

\* A bookmaker of an input held in full: its h2h market's outcomes, if it has one.
Bookmaker(quotes) == [h2h |-> TRUE, outcomes |-> quotes]
NoH2h == [h2h |-> FALSE, outcomes |-> <<>>]
Quote(name, price) == [name |-> name, price |-> price]

\* Four events: two bookmakers giving a margin of 50%; two giving 25%, the second
\* repeating a price of the first; two of which one has no h2h market and the
\* other quotes a single outcome; one bookmaker alone.
SomeEvents ==
    {<<Bookmaker(<<Quote("A", 8), Quote("B", 4)>>),
       Bookmaker(<<Quote("A", 4), Quote("B", 8)>>)>>,
     <<Bookmaker(<<Quote("A", 4), Quote("B", 8)>>), Bookmaker(<<Quote("A", 4)>>)>>,
     <<Bookmaker(<<Quote("A", 4)>>), NoH2h>>,
     <<Bookmaker(<<Quote("A", 8), Quote("B", 8)>>)>>}

\* The sequences of at most n members of S.
SeqsUpTo(S, n) == UNION {[1..k -> S] : k \in 0..n}

\* The inputs read twice: at most MaxMatches of the four events.
SomeInputs == SeqsUpTo(SomeEvents, MaxMatches)

\* Every event of at most MaxBookmakers bookmakers, each without an h2h market
\* or with one of at most two well-formed quotes.
WellQuotes == {Quote(n, p) : n \in {"A", "B"}, p \in {p \in Prices : p > 0}}
WellEvents ==
    SeqsUpTo({NoH2h} \cup {Bookmaker(q) : q \in SeqsUpTo(WellQuotes, 2)},
             MaxBookmakers)

\* The locals of an invocation that has just been entered.
Fresh ==
    [pc |-> "match", mi |-> 0, nb |-> 0, bi |-> 0, oi |-> 0, qn |-> 0,
     teams |-> 0, market |-> "none", best_odds |-> Empty,
     opportunities |-> <<>>, result |-> <<>>, h2h |-> 0, quoted |-> Empty,
     passed |-> FALSE, dropped |-> 0]

\* No call of arbitrage_engine yet.
Idle == [state |-> "idle", opportunities |-> <<>>]

\* The first call is entered, on input of class e (ms, if it is held in full).
Scanner(e, ms) ==
    /\ env = e
    /\ matches = ms
    /\ pc = Fresh.pc
    /\ mi = Fresh.mi
    /\ nb = Fresh.nb
    /\ bi = Fresh.bi
    /\ oi = Fresh.oi
    /\ qn = Fresh.qn
    /\ teams = Fresh.teams
    /\ market = Fresh.market
    /\ best_odds = Fresh.best_odds
    /\ opportunities = Fresh.opportunities
    /\ result = Fresh.result
    /\ h2h = Fresh.h2h
    /\ quoted = Fresh.quoted
    /\ passed = Fresh.passed
    /\ dropped = Fresh.dropped
    /\ call = 1
    /\ first = <<>>
    /\ other = Fresh
    /\ engine = Idle

\* run_arbitrage_scan_pipeline is not called.
NoPipeline ==
    /\ fetched = <<>>
    /\ ei = 0
    /\ all_opportunities = <<>>
    /\ report = "ready"

\* The file load_cache finds: readable is FALSE where it returns None (no file,
\* or one json.load cannot parse); entries is the dict of a readable one.
File(readable, entries) == [readable |-> readable, entries |-> entries]

\* No thread calls get_odds: the cache file does not exist.
NoCache ==
    /\ cache_file = File(FALSE, Empty)
    /\ now = 0
    /\ get_odds = Empty
    /\ threads = {}

\* No run of main: the queue is empty.
NoWorker ==
    /\ queue = Empty
    /\ main = Empty
    /\ inbox = Empty
    /\ ran = Empty
    /\ runs = {}

\* A team name that is missing: .get gives None.
NoTeam == <<>>

\* The hours main takes a match to be over in (check_results_worker.py, line 61).
HoursToWait == 3

\* What main of check_results_worker.py read for a prediction: the hours since
\* the match commenced, whether get_event_results found an event, and the
\* event's scores and team names; new_status is what it set, "" for nothing.
Read(id, elapsed, found, home_score, away_score, home_team, away_team, new_status) ==
    [id |-> id, elapsed |-> elapsed, found |-> found,
     intHomeScore |-> home_score, intAwayScore |-> away_score,
     strHomeTeam |-> home_team, strAwayTeam |-> away_team, new_status |-> new_status]
NothingRead == Read(0, 0, FALSE, "None", "None", NoTeam, NoTeam, "")

\* main of check_results_worker.py does not run: there is no prediction.
NoChecker ==
    /\ history = Empty
    /\ checker = [pc |-> "start", pending_predictions |-> <<>>, k |-> 0]
    /\ seen = NothingRead

\* What does not run beside a scan.
Elsewhere == NoCache /\ NoWorker /\ NoChecker

\* The state a scan starts in, where nothing else of the program runs.
InitOf(e, ms) == Scanner(e, ms) /\ NoPipeline /\ Elsewhere

Init == InitOf(Plain, <<>>)

----------------------------------------------------------------------------
\* Helpers of the loop body.

\* Lines 32-33 with match['home_team'] for match.get('home_team'): a missing
\* field raises KeyError.
SubscriptRaises(named) == ~named

\* Lines 32-33: match.get never raises, whether or not the match has the field.
GetRaises(named) == FALSE

\* Lines 32-33 and 80: the label of match m, f"{home_team} vs {away_team}"; 0 is
\* a label with None for a team: match.get gave None for the missing field.
Label(m, named) == IF named THEN m ELSE 0

\* Selected without the test of the key: the first market, whatever it is.
SelectedFirst(keys) == IF keys = <<>> THEN 0 ELSE 1

\* Line 45: the place of the first market whose key is h2h; 0 if there is none.
Selected(keys) ==
    IF \E i \in DOMAIN keys : keys[i] = "h2h"
    THEN CHOOSE i \in DOMAIN keys :
            keys[i] = "h2h" /\ \A j \in 1..(i - 1) : keys[j] # "h2h"
    ELSE 0

\* Line 37 negated: the match has enough bookmakers to be looked at.
EnoughBookmakers(n) == n >= 2

\* Admitted with the price tested for presence only: a price of 0 passes.
AdmittedAnyPrice(name, price) == name # NoName

\* Admitted with the name left untested: a quote without one passes.
AdmittedUnnamed(name, price) == price # NoPrice /\ price # 0

\* Line 54 negated: the quote has a truthy name and a truthy price (None and 0
\* are falsy, a negative price is truthy).
Admitted(name, price) == name # NoName /\ price # NoPrice /\ price # 0

\* Better with >= for >: an equal later price replaces the recorded one.
BetterOrEqual(price, cur) == price >= cur

\* Line 58, second operand: the price beats the recorded one.
Better(price, cur) == price > cur

\* Lines 58-62: best_odds after one admitted quote.
Updated(bo, name, price, bookmaker) ==
    IF name \notin DOMAIN bo \/ Better(price, bo[name].price)
    THEN [n \in DOMAIN bo \cup {name} |->
            IF n = name THEN [price |-> price, bookmaker |-> bookmaker] ELSE bo[n]]
    ELSE bo

\* EnoughOutcomes with one outcome being enough.
EnoughOutcomesOne(n) == n >= 1

\* Line 71 negated: there are enough outcomes.
EnoughOutcomes(n) == n >= 2

RECURSIVE SumRecip(_, _)
\* Lines 69 and 74: the sum of 1 / price over the entries of bo named in S.
SumRecip(bo, S) ==
    IF S = {} THEN 0
    ELSE LET n == CHOOSE x \in S : TRUE
         IN  Recip(bo[n].price) + SumRecip(bo, S \ {n})

\* IsArbitrage without its lower limit (the test of arbitrage_engine.py, line 65).
IsArbitrageNoFloor(av) == av < Unit

\* Line 76: the arbitrage condition.
IsArbitrage(av) == 0 < av /\ av < Unit

\* ProfitMargin as the value itself in percent, not its complement.
ProfitMarginOfValue(av) == av * 100

\* Line 77: (1 - arbitrage_value) * 100, in units of 1/Unit percent.
ProfitMargin(av) == (Unit - av) * 100

\* Lines 79-85: the opportunity of match m.
Opportunity(m, bo, av) ==
    [match |-> m, profit_margin |-> ProfitMargin(av), outcomes |-> bo,
     arbitrage_value |-> av]

RECURSIVE InsertDesc(_, _)
\* x put into s, sorted by descending profit_margin, behind its equals.
InsertDesc(s, x) ==
    IF s = <<>> THEN <<x>>
    ELSE IF Head(s).profit_margin >= x.profit_margin
         THEN <<Head(s)>> \o InsertDesc(Tail(s), x)
         ELSE <<x>> \o s

RECURSIVE InsertAsc(_, _)
\* x put into s, sorted by ascending profit_margin, behind its equals.
InsertAsc(s, x) ==
    IF s = <<>> THEN <<x>>
    ELSE IF Head(s).profit_margin <= x.profit_margin
         THEN <<Head(s)>> \o InsertAsc(Tail(s), x)
         ELSE <<x>> \o s

RECURSIVE SortedAsc(_)
\* SortedDesc with reverse=True left out: an ascending stable sort.
SortedAsc(s) ==
    IF s = <<>> THEN <<>>
    ELSE InsertAsc(SortedAsc(SubSeq(s, 1, Len(s) - 1)), s[Len(s)])

\* s back to front.
Reversed(s) == [i \in 1..Len(s) |-> s[Len(s) + 1 - i]]

\* SortedDesc as an ascending sort read backwards: equals come out reversed.
SortedAscReversed(s) == Reversed(SortedAsc(s))

RECURSIVE SortedDesc(_)
\* Line 89: sorted(..., key=profit_margin, reverse=True), a stable sort.
SortedDesc(s) ==
    IF s = <<>> THEN <<>>
    ELSE InsertDesc(SortedDesc(SubSeq(s, 1, Len(s) - 1)), s[Len(s)])

\* Entered with the list of the call before kept, as a list made once and shared
\* by all calls would be.
EnteredKept(before) == before

\* Line 26: opportunities, on entry, whatever an earlier call left in its own.
Entered(before) == <<>>

\* Taken with the quote popped from the market it is read from.
TakenOut(ms, m, b, o) ==
    [ms EXCEPT ![m][b].outcomes =
        [k \in 1..(Len(@) - 1) |-> IF k < o THEN @[k] ELSE @[k + 1]]]

\* Lines 50-52: the input after outcome o of bookmaker b of match m is read:
\* outcome.get reads, nothing is written.
Taken(ms, m, b, o) == ms

\* OwnBestOdds with best_odds kept outside the function: the running
\* invocation's is what the resumed one finds.
SharedBestOdds(frame) == best_odds

\* Line 41: best_odds is made inside the call; an invocation resumed finds its own.
OwnBestOdds(frame) == frame.best_odds

----------------------------------------------------------------------------
\* The record of the input, kept beside the scan.

\* quoted after an h2h quote of price p for outcome name by bookmaker b; a quote
\* without a name or without a price leaves no record.
Noted(q, name, p, b) ==
    IF name = NoName \/ p = NoPrice THEN q
    ELSE [n \in DOMAIN q \cup {name} |->
            IF n # name THEN q[n]
            ELSE IF name \notin DOMAIN q \/ p > q[name].max
                 THEN [max |-> p, by |-> {b}]
                 ELSE IF p = q[name].max
                      THEN [max |-> p, by |-> q[name].by \cup {b}]
                      ELSE q[name]]

\* The names the next h2h quote of the match in hand may carry: none, one
\* already quoted in the match, or the next new one.
NextNames(q) ==
    {NoName} \cup DOMAIN q \cup
    {NameOrder[k] : k \in {Cardinality(DOMAIN q) + 1} \cap DOMAIN NameOrder}

----------------------------------------------------------------------------
\* The input, at the place the scan reads it.

\* There is a further match.
MoreMatches == IF env.stored THEN mi < Len(matches) ELSE mi < MaxMatches

\* What the next match may be: its number of bookmakers, and whether it has its
\* team names.
NextMatches ==
    IF env.stored
    THEN {[nbk |-> Len(matches[mi + 1]), named |-> TRUE]}
    ELSE [nbk : 0..MaxBookmakers,
          named : IF env.teamless THEN BOOLEAN ELSE {TRUE}]

\* The market keys the next bookmaker of the match in hand may carry.
NextKeys ==
    IF env.stored
    THEN {IF matches[mi][bi + 1].h2h THEN <<"h2h">> ELSE <<>>}
    ELSE env.keys

\* The market in hand has a further outcome.
MoreOutcomes ==
    IF env.stored THEN oi < Len(matches[mi][bi].outcomes) ELSE qn < MaxQuotes

\* The market in hand, if there is one, has no further outcome.
OutcomesEnded ==
    (pc = "outcome" /\ env.stored) => oi = Len(matches[mi][bi].outcomes)

\* What the next outcome of the market in hand may be.
NextQuotes ==
    IF env.stored
    THEN {matches[mi][bi].outcomes[oi + 1]}
    ELSE {Quote(n, p) :
            n \in NextNames(quoted) \ (IF env.nameless THEN {} ELSE {NoName}),
            p \in env.prices}

\* The variables of the callers of the scan.
beyond == <<fetched, ei, all_opportunities, report>>

\* The variables of get_odds.
cache_vars == <<cache_file, now, get_odds, threads>>

\* The variables of the analysis worker.
worker_vars == <<queue, main, inbox, ran, runs>>

\* The variables of the results worker.
checker_vars == <<history, checker, seen>>

\* The variables of what runs apart from the scan and its callers.
apart == <<cache_vars, worker_vars, checker_vars>>

\* The variables no step of a scan touches.
outer == <<env, call, first, other, engine, beyond, apart>>

----------------------------------------------------------------------------
\* The steps of the scan.

\* Lines 31-41: the next match of the input.
NextMatch ==
    /\ pc = "match"
    /\ MoreMatches
    /\ \E m \in NextMatches :
        /\ nb' = m.nbk
        /\ teams' = Label(mi + 1, m.named)
        /\ pc' = IF GetRaises(m.named) THEN "error"
                 ELSE IF EnoughBookmakers(m.nbk) THEN "bookie" ELSE "match"
    /\ mi' = mi + 1
    /\ bi' = 0
    /\ oi' = 0
    /\ market' = "none"
    /\ best_odds' = Empty
    /\ h2h' = 0
    /\ quoted' = Empty
    /\ passed' = FALSE
    /\ dropped' = 0
    /\ UNCHANGED <<qn, opportunities, result, matches>>
    /\ UNCHANGED outer

\* Lines 43-48: the next bookmaker of the match and the market taken from it
\* (the outcomes of the bookmaker before it, if any, being exhausted).
NextBookie ==
    /\ pc \in {"bookie", "outcome"}
    /\ bi < nb
    /\ OutcomesEnded
    /\ bi' = bi + 1
    /\ oi' = 0
    /\ \E keys \in NextKeys :
        /\ market' = IF Selected(keys) = 0 THEN "none" ELSE keys[Selected(keys)]
        /\ pc' = IF Selected(keys) = 0 THEN "bookie" ELSE "outcome"
        /\ h2h' = IF \E i \in DOMAIN keys : keys[i] = "h2h" THEN h2h + 1 ELSE h2h
        /\ passed' = (passed \/ \E i \in DOMAIN keys : keys[i] # "h2h")
    /\ UNCHANGED <<mi, nb, qn, teams, best_odds, opportunities, result, quoted,
                   dropped, matches>>
    /\ UNCHANGED outer

\* Lines 50-62: the next outcome of the market in hand.
NextOutcome ==
    /\ pc = "outcome"
    /\ MoreOutcomes
    /\ qn' = qn + 1
    /\ oi' = IF env.stored THEN oi + 1 ELSE oi
    /\ matches' = IF env.stored THEN Taken(matches, mi, bi, oi + 1) ELSE matches
    /\ \E q \in NextQuotes :
        /\ best_odds' = IF Admitted(q.name, q.price)
                        THEN Updated(best_odds, q.name, q.price, bi)
                        ELSE best_odds
        /\ quoted' = IF market = "h2h"
                     THEN Noted(quoted, q.name, q.price, bi)
                     ELSE quoted
        /\ dropped' = IF market = "h2h" /\ (q.name = NoName \/ q.price = NoPrice)
                      THEN dropped + 1
                      ELSE dropped
    /\ UNCHANGED <<pc, mi, nb, bi, teams, market, opportunities, result, h2h, passed>>
    /\ UNCHANGED outer

\* Lines 64-87: the bookmakers (and the outcomes of the last) are exhausted; the
\* best odds are analysed.
\* 1 / 0 raises ZeroDivisionError, which ends the call.
Analyze ==
    /\ pc \in {"bookie", "outcome"}
    /\ bi = nb
    /\ OutcomesEnded
    /\ LET av == SumRecip(best_odds, DOMAIN best_odds)
       IN  IF best_odds = Empty
           THEN pc' = "match" /\ UNCHANGED opportunities
           ELSE IF \E n \in DOMAIN best_odds : best_odds[n].price = 0
           THEN pc' = "error" /\ UNCHANGED opportunities
           ELSE IF ~EnoughOutcomes(Cardinality(DOMAIN best_odds))
           THEN pc' = "match" /\ UNCHANGED opportunities
           ELSE /\ pc' = "match"
                /\ opportunities' =
                     IF IsArbitrage(av)
                     THEN Append(opportunities, Opportunity(teams, best_odds, av))
                     ELSE opportunities
    /\ nb' = 0
    /\ bi' = 0
    /\ oi' = 0
    /\ market' = "none"
    /\ UNCHANGED <<mi, qn, teams, best_odds, result, h2h, quoted, passed, dropped,
                   matches>>
    /\ UNCHANGED outer

\* Lines 28-29 and 89: the matches are exhausted; the sorted list is returned.
Return ==
    /\ pc = "match"
    /\ ~(env.stored /\ MoreMatches)
    /\ result' = SortedDesc(opportunities)
    /\ pc' = "done"
    /\ UNCHANGED <<mi, nb, bi, oi, qn, teams, market, best_odds, opportunities,
                   h2h, quoted, passed, dropped, matches>>
    /\ UNCHANGED outer

Next ==
    \/ NextMatch
    \/ NextBookie
    \/ NextOutcome
    \/ Analyze
    \/ Return

Spec == Init /\ [][Next]_vars

----------------------------------------------------------------------------
\* The scan on narrower and on wider inputs.

\* Every quote has a name and a positive price.
InitWell == InitOf(WellFormed, <<>>)
SpecWell == InitWell /\ [][Next]_vars

\* Matches may lack their team names.
InitTeamless == InitOf(Teamless, <<>>)
SpecTeamless == InitTeamless /\ [][Next]_vars

\* Bookmakers may carry markets that are not h2h.
InitMarkets == InitOf(ManyMarkets, <<>>)
SpecMarkets == InitMarkets /\ [][Next]_vars

----------------------------------------------------------------------------
\* The scan called twice on one input, the second time alone or by two
\* invocations whose steps interleave.

\* Line 26, again: the scan has returned and is called on the same input; with
\* env.pair a second invocation is entered beside it.
Call ==
    /\ pc = "done"
    /\ env.stored
    /\ call = 1
    /\ call' = 2
    /\ first' = result
    /\ pc' = Fresh.pc
    /\ mi' = Fresh.mi
    /\ nb' = Fresh.nb
    /\ bi' = Fresh.bi
    /\ oi' = Fresh.oi
    /\ qn' = Fresh.qn
    /\ teams' = Fresh.teams
    /\ market' = Fresh.market
    /\ best_odds' = Fresh.best_odds
    /\ opportunities' = Entered(opportunities)
    /\ result' = Fresh.result
    /\ h2h' = Fresh.h2h
    /\ quoted' = Fresh.quoted
    /\ passed' = Fresh.passed
    /\ dropped' = Fresh.dropped
    /\ other' = IF env.pair THEN Fresh ELSE other
    /\ UNCHANGED <<env, matches, engine>>
    /\ UNCHANGED <<beyond, apart>>

\* The locals of the running invocation.
Frame ==
    [pc |-> pc, mi |-> mi, nb |-> nb, bi |-> bi, oi |-> oi, qn |-> qn,
     teams |-> teams, market |-> market, best_odds |-> best_odds,
     opportunities |-> opportunities, result |-> result, h2h |-> h2h,
     quoted |-> quoted, passed |-> passed, dropped |-> dropped]

\* The running invocation is suspended between two of its steps and the waiting
\* one, which has not returned, resumed: each has its own locals.
Switch ==
    /\ env.pair
    /\ call = 2
    /\ other.pc \notin {"done", "error"}
    /\ other' = Frame
    /\ pc' = other.pc
    /\ mi' = other.mi
    /\ nb' = other.nb
    /\ bi' = other.bi
    /\ oi' = other.oi
    /\ qn' = other.qn
    /\ teams' = other.teams
    /\ market' = other.market
    /\ best_odds' = OwnBestOdds(other)
    /\ opportunities' = other.opportunities
    /\ result' = other.result
    /\ h2h' = other.h2h
    /\ quoted' = other.quoted
    /\ passed' = other.passed
    /\ dropped' = other.dropped
    /\ UNCHANGED <<env, matches, call, first, engine>>
    /\ UNCHANGED <<beyond, apart>>

InitTwice == \E ms \in SomeInputs : InitOf(Stored, ms)
NextTwice == Next \/ Call
SpecTwice == InitTwice /\ [][NextTwice]_vars

InitPair == \E ms \in SomeInputs : InitOf(StoredPair, ms)
NextPair == Next \/ Call \/ Switch
SpecPair == InitPair /\ [][NextPair]_vars

----------------------------------------------------------------------------
\* The other engine: find_arbitrage_opportunities of arbitrage_engine.py, which
\* takes the bookmakers of one event.

RECURSIVE EngineBest(_, _, _, _)
\* arbitrage_engine.py, lines 35-56: best_odds after the outcomes from outcome o
\* of bookmaker b on, of the h2h markets collected in h2h_odds, are put into bo.
EngineBest(bookmakers, b, o, bo) ==
    IF b > Len(bookmakers) THEN bo
    ELSE IF ~bookmakers[b].h2h \/ o > Len(bookmakers[b].outcomes)
    THEN EngineBest(bookmakers, b + 1, 1, bo)
    ELSE LET q == bookmakers[b].outcomes[o]
         IN  EngineBest(bookmakers, b, o + 1,
                IF q.name \notin DOMAIN bo \/ q.price > bo[q.name].price
                THEN [n \in DOMAIN bo \cup {q.name} |->
                        IF n = q.name
                        THEN [price |-> q.price, bookmaker |-> b]
                        ELSE bo[n]]
                ELSE bo)

\* arbitrage_engine.py, line 69: round(profit_percentage, 2), in hundredths of a
\* percent, of a positive percentage in units of 1/Unit percent.
Rounded2(x) == (x * 100 + Unit \div 2) \div Unit

\* arbitrage_engine.py, lines 32-74: what the call returns for the bookmakers.
\* 1 / 0 raises ZeroDivisionError, which ends the call.
EngineOf(bookmakers) ==
    LET bo == EngineBest(bookmakers, 1, 1, Empty)
        margin == SumRecip(bo, DOMAIN bo)
    IN  IF \A b \in DOMAIN bookmakers : ~bookmakers[b].h2h
        THEN [state |-> "done", opportunities |-> <<>>]
        ELSE IF Cardinality(DOMAIN bo) < 2
        THEN [state |-> "done", opportunities |-> <<>>]
        ELSE IF \E n \in DOMAIN bo : bo[n].price = 0
        THEN [state |-> "error", opportunities |-> <<>>]
        ELSE IF margin < Unit
        THEN [state |-> "done",
              opportunities |->
                <<[outcomes |-> bo,
                   profit_percentage |-> Rounded2((Unit - margin) * 100),
                   margin |-> margin]>>]
        ELSE [state |-> "done", opportunities |-> <<>>]

\* arbitrage_engine.find_arbitrage_opportunities is called on the bookmakers of
\* the one event the scan has returned from.
CallEngine ==
    /\ pc = "done"
    /\ env.stored
    /\ Len(matches) = 1
    /\ engine = Idle
    /\ engine' = EngineOf(matches[1])
    /\ UNCHANGED <<pc, mi, nb, bi, oi, qn, teams, market, best_odds, opportunities,
                   result, h2h, quoted, passed, dropped, env, matches, call, first,
                   other>>
    /\ UNCHANGED <<beyond, apart>>

InitBoth == \E e \in WellEvents : InitOf(Stored, <<e>>)
NextBoth == Next \/ CallEngine
SpecBoth == InitBoth /\ [][NextBoth]_vars

\* Every event of at most MaxBookmakers bookmakers, each without an h2h market
\* or with one of at most two named quotes of any price: positive, 0 or negative.
AnyQuotes == {Quote(n, p) : n \in {"A", "B"}, p \in Prices}
AnyEvents ==
    SeqsUpTo({NoH2h} \cup {Bookmaker(q) : q \in SeqsUpTo(AnyQuotes, 2)},
             MaxBookmakers)

InitEngine == \E e \in AnyEvents : InitOf(Stored, <<e>>)
SpecEngine == InitEngine /\ [][NextBoth]_vars

----------------------------------------------------------------------------
\* run_arbitrage_scan_pipeline of run_analysis_worker.py, which calls the scan
\* once for each fetched event.

\* run_analysis_worker.py, line 65, read with market_scanner.py, line 34: the
\* scan is handed event.get('bookmakers', []) as its matches, so each of its
\* matches is a bookmaker, a dict of the keys 'key', 'title', 'last_update' and
\* 'markets', and match.get('bookmakers', []) of it is [].
AsMatches(bookmakers) == [b \in DOMAIN bookmakers |-> <<>>]

\* Line 65: the scan is called on the next event.
ScanEvent ==
    /\ report = "ready"
    /\ ei < Len(fetched)
    /\ report' = "scanning"
    /\ matches' = AsMatches(fetched[ei + 1])
    /\ pc' = Fresh.pc
    /\ mi' = Fresh.mi
    /\ nb' = Fresh.nb
    /\ bi' = Fresh.bi
    /\ oi' = Fresh.oi
    /\ qn' = Fresh.qn
    /\ teams' = Fresh.teams
    /\ market' = Fresh.market
    /\ best_odds' = Fresh.best_odds
    /\ opportunities' = Fresh.opportunities
    /\ result' = Fresh.result
    /\ h2h' = Fresh.h2h
    /\ quoted' = Fresh.quoted
    /\ passed' = Fresh.passed
    /\ dropped' = Fresh.dropped
    /\ UNCHANGED <<env, call, first, other, engine, fetched, ei, all_opportunities>>
    /\ UNCHANGED apart

\* Lines 66-69: the scan has returned, and what it found is put on the list
\* under the event it was found in; an exception of the scan ends the pipeline.
Collect ==
    /\ report = "scanning"
    /\ pc \in {"done", "error"}
    /\ IF pc = "error"
       THEN report' = "error" /\ UNCHANGED <<ei, all_opportunities>>
       ELSE /\ report' = "ready"
            /\ ei' = ei + 1
            /\ all_opportunities' =
                  all_opportunities \o
                  [k \in DOMAIN result |-> [event |-> ei + 1, opp |-> result[k]]]
    /\ UNCHANGED <<pc, mi, nb, bi, oi, qn, teams, market, best_odds, opportunities,
                   result, h2h, quoted, passed, dropped, env, matches, call, first,
                   other, engine, fetched>>
    /\ UNCHANGED apart

\* Lines 71-81: the events are done with.  The report reads
\* opp['profit_percentage'] (line 76), a key no dict of market_scanner.py has
\* (lines 79-86 set 'profit_margin'): KeyError.
Finish ==
    /\ report = "ready"
    /\ ei = Len(fetched)
    /\ report' = IF all_opportunities = <<>> THEN "message" ELSE "error"
    /\ UNCHANGED <<pc, mi, nb, bi, oi, qn, teams, market, best_odds, opportunities,
                   result, h2h, quoted, passed, dropped, env, matches, call, first,
                   other, engine, fetched, ei, all_opportunities>>
    /\ UNCHANGED apart

\* What get_odds may have returned: at most MaxMatches of the four events.
InitPipeline ==
    \E evs \in SomeInputs :
        /\ Scanner(Stored, <<>>)
        /\ fetched = evs
        /\ ei = 0
        /\ all_opportunities = <<>>
        /\ report = "ready"
        /\ Elsewhere

\* No match of these scans has a bookmaker, so of the steps of a scan only
\* those of lines 26-38 and of line 89 are taken.
NextPipeline == NextMatch \/ Return \/ ScanEvent \/ Collect \/ Finish
SpecPipeline == InitPipeline /\ [][NextPipeline]_vars

----------------------------------------------------------------------------
\* get_odds of odds_api.py and its cache file.

\* Line 88: the entries of the cache are served for 600 seconds.
TTL == 600

\* The clock is read every half of that time, MaxTicks times at most.
Step == TTL \div 2

\* datetime.isoformat() and datetime.fromisoformat(), the time in seconds: the
\* text carries the minutes and the seconds of it.
IsoFormat(t) == [minute |-> t \div 60, second |-> t % 60]
FromIsoFormat(text) == text.minute * 60 + text.second

\* Line 80: the cache key of a call.
CacheKey(sport_key, regions, markets) == sport_key \o "_" \o regions \o "_" \o markets

\* The threads there may be.
Threads == {1, 2}

\* The sports asked for, and the defaults of regions and markets (line 74).
Sports == {"nba", "nfl"}
Regions == "us,uk,eu"
Markets == "h2h"

\* What the API answers: a list of events, which may be empty.
Responses == {<<>>, <<"e1">>, <<"e2">>}

\* The frame of a thread that is not in get_odds, having returned ret from its
\* last call for the reason why ("": it has not called).
Out(ret, why, frame) ==
    [pc |-> "out", key |-> frame.key, cached_data |-> frame.cached_data,
     odds_data |-> frame.odds_data, stamp |-> frame.stamp, ret |-> ret, why |-> why]
NoFrame ==
    [pc |-> "out", key |-> "", cached_data |-> File(FALSE, Empty), odds_data |-> <<>>,
     stamp |-> 0, ret |-> <<>>, why |-> ""]

\* The variables no step of get_odds touches.
not_cache ==
    <<pc, mi, nb, bi, oi, qn, teams, market, best_odds, opportunities, result, h2h,
      quoted, passed, dropped, env, matches, call, first, other, engine, beyond,
      worker_vars, checker_vars>>

\* Line 88: an entry of this age is served.
FreshEnoughAtTTL(age) == age <= TTL
FreshEnough(age) == age < TTL

\* Lines 85-88: the cache read holds a servable entry for the key.
Servable(file, key) ==
    /\ file.readable
    /\ file.entries # Empty
    /\ key \in DOMAIN file.entries
    /\ FreshEnough(now - FromIsoFormat(file.entries[key].timestamp))

\* Lines 92-95 and 119-121: the cache file after a fetch that failed.
AfterFailureDropped(file, key) ==
    File(file.readable, [k \in DOMAIN file.entries \ {key} |-> file.entries[k]])
AfterFailure(file, key) == file

\* Lines 80-95: the call up to the request.  The cache is read; a servable
\* entry is returned; otherwise the API key is looked up, and [] returned
\* when there is none.  Of two threads, each calls once.
GetOdds(t) ==
    /\ t \in threads
    /\ get_odds[t].pc = "out"
    /\ threads = {t} \/ get_odds[t].why = ""
    /\ \E sport_key \in Sports, api_key \in BOOLEAN :
         LET key == CacheKey(sport_key, Regions, Markets)
             frame == [get_odds[t] EXCEPT !.key = key, !.cached_data = cache_file]
         IN  IF Servable(cache_file, key)
             THEN /\ get_odds' = [get_odds EXCEPT
                        ![t] = Out(cache_file.entries[key].data, "cache", frame)]
                  /\ UNCHANGED cache_file
             ELSE IF ~api_key
             THEN /\ get_odds' = [get_odds EXCEPT ![t] = Out(<<>>, "nokey", frame)]
                  /\ cache_file' = AfterFailure(cache_file, key)
             ELSE /\ get_odds' = [get_odds EXCEPT ![t] = [frame EXCEPT !.pc = "request"]]
                  /\ UNCHANGED cache_file
    /\ UNCHANGED <<now, threads>>
    /\ UNCHANGED not_cache

\* Lines 104-107 and 119-121: the request.  It fails, and [] is returned, or
\* it is answered.
Request(t) ==
    /\ t \in threads
    /\ get_odds[t].pc = "request"
    /\ \/ /\ get_odds' = [get_odds EXCEPT ![t] = Out(<<>>, "failed", get_odds[t])]
          /\ cache_file' = AfterFailure(cache_file, get_odds[t].key)
       \/ /\ \E odds_data \in Responses :
                get_odds' = [get_odds EXCEPT
                    ![t] = [get_odds[t] EXCEPT !.pc = "update", !.odds_data = odds_data]]
          /\ UNCHANGED cache_file
    /\ UNCHANGED <<now, threads>>
    /\ UNCHANGED not_cache

\* The dict with the entry of the key set.
WithEntry(entries, key, entry) ==
    [k \in DOMAIN entries \cup {key} |-> IF k = key THEN entry ELSE entries[k]]

\* Lines 110-115, and lines 32-33 of save_cache: the entry is put into the dict
\* that was read, under the time of now, and the file opened for writing,
\* which empties it.
Open(t) ==
    /\ t \in threads
    /\ get_odds[t].pc = "update"
    /\ get_odds' = [get_odds EXCEPT ![t] = [get_odds[t] EXCEPT
            !.pc = "dump",
            !.stamp = now,
            !.cached_data =
                File(TRUE, WithEntry(get_odds[t].cached_data.entries, get_odds[t].key,
                                     [timestamp |-> IsoFormat(now),
                                      data |-> get_odds[t].odds_data]))]]
    /\ cache_file' = File(FALSE, Empty)
    /\ UNCHANGED <<now, threads>>
    /\ UNCHANGED not_cache

\* Line 34 of save_cache, and line 118: the dict is written from the start of
\* the file, and the answer returned.  Where another thread has written the
\* file since this one opened it, what it wrote beyond the length of this
\* dict's text stays, and the file may be one json.load cannot parse.
Dump(t) ==
    /\ t \in threads
    /\ get_odds[t].pc = "dump"
    /\ cache_file' \in
         {get_odds[t].cached_data} \cup
         (IF cache_file.readable THEN {File(FALSE, Empty)} ELSE {})
    /\ get_odds' = [get_odds EXCEPT
            ![t] = Out(get_odds[t].odds_data, "fetched", get_odds[t])]
    /\ UNCHANGED <<now, threads>>
    /\ UNCHANGED not_cache

\* Time passes.
Tick ==
    /\ now < MaxTicks * Step
    /\ now' = now + Step
    /\ UNCHANGED <<cache_file, get_odds, threads>>
    /\ UNCHANGED not_cache

\* One thread calls get_odds, again and again.
InitOdds ==
    /\ Scanner(Plain, <<>>)
    /\ NoPipeline
    /\ cache_file = File(FALSE, Empty)
    /\ now = 0
    /\ threads = {1}
    /\ get_odds = [t \in threads |-> NoFrame]
    /\ NoWorker
    /\ NoChecker

NextOdds ==
    \/ Tick
    \/ \E t \in Threads : GetOdds(t)
    \/ \E t \in Threads : Request(t)
    \/ \E t \in Threads : Open(t)
    \/ \E t \in Threads : Dump(t)
SpecOdds == InitOdds /\ [][NextOdds]_vars

\* Two threads call get_odds, each once: process_update of app.py runs in a
\* thread of its own for each update (app.py, line 87).
InitOddsPair ==
    /\ Scanner(Plain, <<>>)
    /\ NoPipeline
    /\ cache_file = File(FALSE, Empty)
    /\ now = 0
    /\ threads = {1, 2}
    /\ get_odds = [t \in threads |-> NoFrame]
    /\ NoWorker
    /\ NoChecker
SpecOddsPair == InitOddsPair /\ [][NextOdds]_vars

----------------------------------------------------------------------------
\* main of run_analysis_worker.py and the queue of jobs.  The functions of
\* utils it calls are those of utils.py where utils.py has them
\* (get_pending_jobs, update_job_status); get_all_settings and delete_job
\* are not in utils.py.

\* The runs of main there may be.
Runs == {1, 2}

\* The jobs of the queue, by id.
JobIds == 1..MaxJobs

\* utils.py, lines 110-119, update_job_status: the rows of the id are updated,
\* which is no row where the job is deleted.
Updated_(q, job_id, status) ==
    IF q[job_id] = "deleted" THEN q ELSE [q EXCEPT ![job_id] = status]

\* delete_job: the row of the id is deleted.
Deleted(q, job_id) == [q EXCEPT ![job_id] = "deleted"]

\* utils.py, lines 101-105, get_pending_jobs: the ids of the rows of status
\* 'pending', from id i on, in the order of their ids.
RECURSIVE PendingFrom(_, _)
PendingFrom(q, i) ==
    IF i > MaxJobs THEN <<>>
    ELSE (IF q[i] = "pending" THEN <<i>> ELSE <<>>) \o PendingFrom(q, i + 1)

\* The frame of a run at pc, with these pending_jobs, k of them done with.
Run(at, pending_jobs, k) == [pc |-> at, pending_jobs |-> pending_jobs, k |-> k]

\* The job in hand of a run.
JobOf(r) == main[r].pending_jobs[main[r].k + 1]

\* Line 97: the run after the job in hand, at the next job or returned.
AfterJob(r) ==
    Run(IF main[r].k + 1 < Len(main[r].pending_jobs) THEN "job" ELSE "returned",
        main[r].pending_jobs, main[r].k + 1)

\* What send_telegram_message (lines 14-25) adds to the messages a chat has
\* received: the text, or nothing where there is no token (line 19) or
\* bot.send_message raises (lines 24-25).
Received(text) == {<<text>>, <<>>}

\* The variables no step of main touches.
not_worker ==
    <<pc, mi, nb, bi, oi, qn, teams, market, best_odds, opportunities, result, h2h,
      quoted, passed, dropped, env, matches, call, first, other, engine, beyond,
      cache_vars, checker_vars>>

\* Lines 87-95: the settings are loaded and the pending jobs fetched, which
\* gives [] where the query fails (utils.py, lines 106-108).
Fetch(r) ==
    /\ r \in runs
    /\ main[r].pc = "start"
    /\ \E pending_jobs \in {PendingFrom(queue, 1), <<>>} :
         main' = [main EXCEPT ![r] =
            Run(IF pending_jobs = <<>> THEN "returned" ELSE "job", pending_jobs, 0)]
    /\ UNCHANGED <<queue, inbox, ran, runs>>
    /\ UNCHANGED not_worker

\* Lines 97-101: the next job is taken and its status set to 'processing',
\* unless the update fails, which update_job_status logs (utils.py, lines
\* 118-119).
Begin(r) ==
    /\ r \in runs
    /\ main[r].pc = "job"
    /\ queue' \in {Updated_(queue, JobOf(r), "processing"), queue}
    /\ main' = [main EXCEPT ![r].pc = "pipeline"]
    /\ UNCHANGED <<inbox, ran, runs>>
    /\ UNCHANGED not_worker

\* Lines 102-108: the job's data is parsed and its pipeline run, which returns
\* a text or raises.
Pipeline(r) ==
    /\ r \in runs
    /\ main[r].pc = "pipeline"
    /\ \/ /\ main' = [main EXCEPT ![r].pc = "send"]
          /\ ran' = [ran EXCEPT ![JobOf(r)] = @ + 1]
       \/ /\ main' = [main EXCEPT ![r].pc = "except"]
          /\ UNCHANGED ran
    /\ UNCHANGED <<queue, inbox, runs>>
    /\ UNCHANGED not_worker

\* Line 110: the result is sent.
Send(r) ==
    /\ r \in runs
    /\ main[r].pc = "send"
    /\ \E got \in Received("result") :
         inbox' = [inbox EXCEPT ![JobOf(r)] = @ \o got]
    /\ main' = [main EXCEPT ![r].pc = "delete"]
    /\ UNCHANGED <<queue, ran, runs>>
    /\ UNCHANGED not_worker

\* Line 111: the job is deleted.
Delete(r) ==
    /\ r \in runs
    /\ main[r].pc = "delete"
    /\ queue' = Deleted(queue, JobOf(r))
    /\ main' = [main EXCEPT ![r] = AfterJob(r)]
    /\ UNCHANGED <<inbox, ran, runs>>
    /\ UNCHANGED not_worker

\* Lines 112-115: the exception is caught, the status set to 'failed', unless
\* the update fails, and the apology sent.
Except(r) ==
    /\ r \in runs
    /\ main[r].pc = "except"
    /\ queue' \in {Updated_(queue, JobOf(r), "failed"), queue}
    /\ \E got \in Received("apology") :
         inbox' = [inbox EXCEPT ![JobOf(r)] = @ \o got]
    /\ main' = [main EXCEPT ![r] = AfterJob(r)]
    /\ UNCHANGED <<ran, runs>>
    /\ UNCHANGED not_worker

\* One run of main on a queue of jobs that are pending or failed.
InitWorkerOf(rs) ==
    /\ Scanner(Plain, <<>>)
    /\ NoPipeline
    /\ NoCache
    /\ NoChecker
    /\ queue \in [JobIds -> {"pending", "failed"}]
    /\ runs = rs
    /\ main = [r \in rs |-> Run("start", <<>>, 0)]
    /\ inbox = [j \in JobIds |-> <<>>]
    /\ ran = [j \in JobIds |-> 0]

NextWorker ==
    \/ \E r \in Runs : Fetch(r)
    \/ \E r \in Runs : Begin(r)
    \/ \E r \in Runs : Pipeline(r)
    \/ \E r \in Runs : Send(r)
    \/ \E r \in Runs : Delete(r)
    \/ \E r \in Runs : Except(r)

InitWorker == InitWorkerOf({1})
SpecWorker == InitWorker /\ [][NextWorker]_vars

\* Two runs of main, whose steps interleave.
InitWorkers == InitWorkerOf({1, 2})
SpecWorkers == InitWorkers /\ [][NextWorker]_vars

----------------------------------------------------------------------------
\* main of check_results_worker.py and the table of predictions.

\* The predictions of the table, by id.
PredictionIds == 1..MaxPredictions

\* Names are sequences of letters.  "Abc" begins with "Ab"; "ab" is "Ab" in
\* small letters; "Draw" is what main calls a match without a winner (line 96).
Ab == <<"A", "b">>
Abc == <<"A", "b", "c">>
Cd == <<"C", "d">>
Draw == <<"D", "r", "a", "w">>

\* What a prediction may give as the winner.
Predicted == {Ab, <<"a", "b">>, Abc, Cd, Draw}

\* The home and away teams an event may name; the home team's name may be
\* missing.
Fixtures == {<<Ab, Cd>>, <<Abc, Ab>>, <<NoTeam, Cd>>}

\* What intHomeScore and intAwayScore may be: None, or a text.
ScoreTexts == {"None", "x", "0", "1"}

\* int(text), lines 87-88: int raises ValueError on "x".
IsInt(text) == text \in {"0", "1"}
IntOf(text) == IF text = "0" THEN 0 ELSE 1

\* str.lower(), letter by letter.
LowerOf(c) ==
    CASE c = "A" -> "a" [] c = "C" -> "c" [] c = "D" -> "d" [] OTHER -> c
Lower(name) == [i \in DOMAIN name |-> LowerOf(name[i])]

\* sub in text, of Python.
In(sub, text) ==
    \E i \in 0..(Len(text) - Len(sub)) : SubSeq(text, i + 1, i + Len(sub)) = sub

\* Line 61: the match is taken to be over.
LikelyOverAlways(elapsed) == TRUE
LikelyOver(elapsed) == elapsed >= HoursToWait

\* Lines 90-96: the winner the event shows.
ActualWinner(read) ==
    IF IntOf(read.intHomeScore) > IntOf(read.intAwayScore) THEN read.strHomeTeam
    ELSE IF IntOf(read.intAwayScore) > IntOf(read.intHomeScore) THEN read.strAwayTeam
    ELSE Draw

\* Lines 61-108: the status main sets for a prediction of this winner on
\* reading this, "" where it sets none.
NewStatus(predicted_winner, read) ==
    IF ~LikelyOver(read.elapsed) THEN ""
    ELSE IF ~read.found THEN ""
    ELSE IF read.intHomeScore = "None" \/ read.intAwayScore = "None" THEN ""
    ELSE IF ~IsInt(read.intHomeScore) \/ ~IsInt(read.intAwayScore) THEN ""
    ELSE IF ActualWinner(read) = NoTeam THEN ""
    ELSE IF In(Lower(predicted_winner), Lower(ActualWinner(read)))
    THEN "Correct"
    ELSE "Incorrect"

\* Lines 14-21, get_pending_predictions: the ids of the rows of status
\* 'Pending', from id i on.
RECURSIVE PendingPredictionsFrom(_, _)
PendingPredictionsFrom(h, i) ==
    IF i > MaxPredictions THEN <<>>
    ELSE (IF h[i].status = "Pending" THEN <<i>> ELSE <<>>)
         \o PendingPredictionsFrom(h, i + 1)

\* What main may read for the prediction id.
Reads(id) ==
    {Read(id, e, FALSE, "None", "None", NoTeam, NoTeam, "") :
        e \in {HoursToWait - 1, HoursToWait}}
    \cup {Read(id, HoursToWait, TRUE, hs, as, f[1], f[2], "") :
            hs \in ScoreTexts, as \in ScoreTexts, f \in Fixtures}
    \cup {Read(id, HoursToWait - 1, TRUE, "1", "0", Ab, Cd, "")}

\* The variables no step of this main touches.
not_checker ==
    <<pc, mi, nb, bi, oi, qn, teams, market, best_odds, opportunities, result, h2h,
      quoted, passed, dropped, env, matches, call, first, other, engine, beyond,
      cache_vars, worker_vars>>

\* Lines 36-49: main is run, and fetches the pending predictions, which gives
\* [] where the query fails (lines 19-21).
FetchPredictions ==
    /\ checker.pc \in {"start", "returned"}
    /\ \E pending \in {PendingPredictionsFrom(history, 1), <<>>} :
         checker' = [pc |-> IF pending = <<>> THEN "returned" ELSE "check",
                     pending_predictions |-> pending, k |-> 0]
    /\ seen' = NothingRead
    /\ UNCHANGED history
    /\ UNCHANGED not_checker

\* Lines 51-108: the next prediction is taken.  Its status is set by
\* update_prediction_status, unless the update fails, which it logs (lines
\* 28-29).
Check ==
    /\ checker.pc = "check"
    /\ LET id == checker.pending_predictions[checker.k + 1]
       IN  \E read \in Reads(id) :
             LET new_status == NewStatus(history[id].predicted_winner, read)
             IN  /\ seen' = [read EXCEPT !.new_status = new_status]
                 /\ IF new_status = ""
                    THEN UNCHANGED history
                    ELSE history' \in {[history EXCEPT ![id].status = new_status],
                                       history}
    /\ checker' = [checker EXCEPT
            !.k = @ + 1,
            !.pc = IF checker.k + 1 < Len(checker.pending_predictions)
                   THEN "check" ELSE "returned"]
    /\ UNCHANGED not_checker

\* The table before a run: each prediction pending or settled.
InitChecker ==
    /\ Scanner(Plain, <<>>)
    /\ NoPipeline
    /\ NoCache
    /\ NoWorker
    /\ history \in [PredictionIds ->
                     [status : {"Pending", "Correct", "Incorrect"},
                      predicted_winner : Predicted]]
    /\ checker = [pc |-> "start", pending_predictions |-> <<>>, k |-> 0]
    /\ seen = NothingRead

NextChecker == FetchPredictions \/ Check
SpecChecker == InitChecker /\ [][NextChecker]_vars

----------------------------------------------------------------------------
\* What the claims speak of.

\* The match in hand has been dealt with: skipped at line 38, or analysed.
MatchDone == pc \in {"match", "done"} /\ mi > 0

\* The opportunities the scan holds: what it returned, once it has returned.
Held == IF pc = "done" THEN result ELSE opportunities

\* The places of Held with an opportunity of match m.
Yields(m) == {i \in DOMAIN Held : Held[i].match = m}

\* The lowest of a nonempty set of numbers.
Lowest(S) == CHOOSE x \in S : \A y \in S : x <= y

RECURSIVE RecipSum(_, _)
\* The sum of 1 / price[n] over the names n of S (no price being 0).
RecipSum(price, S) ==
    IF S = {} THEN 0
    ELSE LET n == CHOOSE x \in S : TRUE
         IN  Recip(price[n]) + RecipSum(price, S \ {n})

\* The best prices of the match in hand, as the scan holds them.
BestPrice == [n \in DOMAIN best_odds |-> best_odds[n].price]

\* The names with a well-formed (positive-price) h2h quote in the match in hand,
\* and the highest such price of each.
WellQuoted == {n \in DOMAIN quoted : quoted[n].max > 0}
WellMax == [n \in WellQuoted |-> quoted[n].max]

----------------------------------------------------------------------------
\* C1: every returned Opportunity has 0 < arbitrage_value < 1, and a match
\* whose best prices have a reciprocal sum >= 1 or <= 0 yields no Opportunity.
C1_ValueInRange ==
    /\ \A i \in DOMAIN Held :
          0 < Held[i].arbitrage_value /\ Held[i].arbitrage_value < Unit
    /\ (/\ MatchDone
        /\ \A n \in DOMAIN best_odds : best_odds[n].price # 0
        /\ LET sum == RecipSum(BestPrice, DOMAIN best_odds)
           IN  sum >= Unit \/ sum <= 0)
       => Yields(mi) = {}

\* C1's case: an Opportunity was returned, and the last match, with two or more
\* best prices whose reciprocals sum to 1 or more, gave none.
C1_Witness ==
    /\ pc = "done"
    /\ Len(result) >= 1
    /\ Yields(mi) = {}
    /\ Cardinality(DOMAIN best_odds) >= 2
    /\ \A n \in DOMAIN best_odds : best_odds[n].price > 0
    /\ RecipSum(BestPrice, DOMAIN best_odds) >= Unit

\* C2: a match in which fewer than two bookmakers contribute an h2h market
\* yields no Opportunity, and no error.
C2_FewerThanTwoH2hYieldsNone ==
    (MatchDone /\ h2h < 2) => (Yields(mi) = {} /\ pc # "error")

\* C3: a match in which at least two bookmakers supply an h2h market, at
\* least two names have well-formed quotes, and the reciprocals of the highest
\* well-formed prices sum to strictly between 0 and 1, yields exactly one
\* Opportunity.
C3_QualifyingYieldsOne ==
    (/\ MatchDone
     /\ h2h >= 2
     /\ Cardinality(WellQuoted) >= 2
     /\ LET sum == RecipSum(WellMax, WellQuoted)
        IN  0 < sum /\ sum < Unit)
    => Cardinality(Yields(mi)) = 1

\* C4: in every returned Opportunity the price recorded for a name is the
\* highest price any h2h quote of the match gave it, and the recorded
\* bookmaker is one that quoted that price.
C4_BestIsMaxQuoted ==
    MatchDone =>
        \A i \in Yields(mi) : \A n \in DOMAIN Held[i].outcomes :
            /\ n \in DOMAIN quoted
            /\ Held[i].outcomes[n].price = quoted[n].max
            /\ Held[i].outcomes[n].bookmaker \in quoted[n].by

\* C5: no returned Opportunity has a BestOdds entry whose price is 0 or
\* negative.
C5_NoNonPositiveBest ==
    \A i \in DOMAIN Held : \A n \in DOMAIN Held[i].outcomes :
        Held[i].outcomes[n].price > 0

\* C6: no quote of price 0 or of a negative price makes the scan fail: the
\* division of line 69 never divides by zero.
C6_NoDivisionByZero == pc # "error"

\* C6's case: the scan returned after a match in which some name's highest
\* quote was 0 and a negative price became a best price.
C6_Witness ==
    /\ pc = "done"
    /\ \E n \in DOMAIN quoted : quoted[n].max = 0
    /\ \E n \in DOMAIN best_odds : best_odds[n].price < 0

\* C7: the returned sequence is in non-increasing order of profit margin.
C7_SortedByMargin ==
    pc = "done" =>
        \A i, j \in DOMAIN result :
            i < j => result[i].profit_margin >= result[j].profit_margin

\* C7's case: two Opportunities were returned, the one of the later match,
\* with the greater margin, first.
C7_Witness ==
    /\ pc = "done"
    /\ Len(result) = 2
    /\ result[1].match > result[2].match
    /\ result[1].profit_margin > result[2].profit_margin

\* C8: Opportunities of equal profit margin are returned in the order of
\* their matches in the input.
C8_StableSort ==
    pc = "done" =>
        \A i, j \in DOMAIN result :
            (i < j /\ result[i].profit_margin = result[j].profit_margin)
                => result[i].match < result[j].match

\* C8's case: two Opportunities of equal margin were returned.
C8_Witness ==
    /\ pc = "done"
    /\ Len(result) = 2
    /\ result[1].profit_margin = result[2].profit_margin

\* C9: a best price that is the highest price quoted for its name is recorded
\* with the first bookmaker of the sequence to quote it: an equal later quote
\* does not replace it.
C9_FirstSeenWins ==
    /\ \A n \in DOMAIN best_odds :
          best_odds[n].price = quoted[n].max
              => best_odds[n].bookmaker = Lowest(quoted[n].by)
    /\ MatchDone =>
          \A i \in Yields(mi) : \A n \in DOMAIN Held[i].outcomes :
              Held[i].outcomes[n].price = quoted[n].max
                  => Held[i].outcomes[n].bookmaker = Lowest(quoted[n].by)

\* C9's case: an Opportunity was returned for a match in which two bookmakers
\* quoted the same highest, positive price for a name.
C9_Witness ==
    /\ pc = "done"
    /\ Yields(mi) # {}
    /\ \E n \in DOMAIN quoted :
          quoted[n].max > 0 /\ Cardinality(quoted[n].by) >= 2

\* C10: every returned Opportunity names at least two outcomes, and a match
\* with fewer than two names in its best odds is skipped without error.
C10_AtLeastTwoOutcomes ==
    /\ \A i \in DOMAIN Held : Cardinality(DOMAIN Held[i].outcomes) >= 2
    /\ (MatchDone /\ Cardinality(DOMAIN best_odds) < 2)
          => (Yields(mi) = {} /\ pc # "error")

\* C10's case: an Opportunity was returned, and the last match, whose one
\* best price alone has a reciprocal below 1, gave none.
C10_Witness ==
    /\ pc = "done"
    /\ Len(result) >= 1
    /\ Yields(mi) = {}
    /\ Cardinality(DOMAIN best_odds) = 1
    /\ \A n \in DOMAIN best_odds :
          best_odds[n].price > 0 /\ Recip(best_odds[n].price) < Unit

\* C11: in every returned Opportunity the arbitrage value is the sum of
\* 1 / price over all the outcomes it records, however many they are, and the
\* profit margin is (1 - arbitrage_value) * 100.
C11_ValueAndMargin ==
    \A i \in DOMAIN Held :
        LET out == Held[i].outcomes
            price == [n \in DOMAIN out |-> out[n].price]
        IN  /\ Held[i].arbitrage_value = RecipSum(price, DOMAIN out)
            /\ Held[i].profit_margin = (Unit - Held[i].arbitrage_value) * 100

\* C11's case: a three-way Opportunity, all its prices positive, was returned.
C11_Witness ==
    /\ pc = "done"
    /\ \E i \in DOMAIN result :
          /\ Cardinality(DOMAIN result[i].outcomes) = 3
          /\ \A n \in DOMAIN result[i].outcomes :
                result[i].outcomes[n].price > 0

\* C12: a step of the scan that replaces one best price by a larger one, all
\* other best prices staying as they are, never decreases the profit margin
\* computed from the best prices.
C12_MarginMonotone ==
    [][(/\ DOMAIN best_odds' = DOMAIN best_odds
        /\ \E n \in DOMAIN best_odds :
              /\ best_odds'[n].price > best_odds[n].price
              /\ \A o \in DOMAIN best_odds \ {n} : best_odds'[o] = best_odds[o])
       => ProfitMargin(SumRecip(best_odds', DOMAIN best_odds'))
              >= ProfitMargin(SumRecip(best_odds, DOMAIN best_odds))]_vars

C15_NoArbitrageYieldsNone ==
    /\ pc # "error"
    /\ (pc = "done" /\ mi = 0) => result = <<>>
    /\ (/\ MatchDone
        /\ \/ h2h < 2
           \/ Cardinality(WellQuoted) < 2
           \/ RecipSum(WellMax, WellQuoted) >= Unit)
       => Yields(mi) = {}

\* C16: a match without its team names does not end the scan in an error, and
\* whatever matches of that kind came before it, a match that has its team
\* names, at least two bookmakers with an h2h market, at least two outcomes
\* and best prices whose reciprocals sum to less than 1 gets its Opportunity.
C16_DefectiveMatchDoesNotAbort ==
    /\ pc # "error"
    /\ (/\ MatchDone
        /\ teams = mi
        /\ h2h >= 2
        /\ Cardinality(WellQuoted) >= 2
        /\ RecipSum(WellMax, WellQuoted) < Unit)
       => Cardinality(Yields(mi)) = 1

\* C16's case: the scan has returned from a match without team names followed
\* by a match with them, and the second has its Opportunity.
C16_Witness ==
    /\ pc = "done"
    /\ mi = 2
    /\ teams = mi
    /\ h2h >= 2
    /\ \E i \in DOMAIN result : result[i].match = 0
    /\ \E j \in DOMAIN result : result[j].match = mi

\* What the h2h quotes of the match in hand, all well-formed, determine: for
\* each name the highest price and the first bookmaker to quote it.
BestOfH2h ==
    [n \in DOMAIN quoted |->
        [price |-> quoted[n].max, bookmaker |-> Lowest(quoted[n].by)]]

\* C17: whatever markets that are not h2h the bookmakers of a match carry, and
\* whatever these hold, the best odds are those the h2h quotes alone determine,
\* and so are the Opportunity of the match, its arbitrage value and its margin.
C17_OnlyH2hCounts ==
    /\ best_odds = BestOfH2h
    /\ MatchDone =>
          /\ \A i \in Yields(mi) :
                /\ Held[i].outcomes = BestOfH2h
                /\ Held[i].arbitrage_value = RecipSum(WellMax, WellQuoted)
                /\ Held[i].profit_margin =
                      (Unit - RecipSum(WellMax, WellQuoted)) * 100
          /\ (h2h >= 1 /\ Cardinality(WellQuoted) >= 2
                /\ RecipSum(WellMax, WellQuoted) < Unit)
                => Yields(mi) # {}
          /\ h2h = 0 => Yields(mi) = {}

\* C17's case: an Opportunity was returned for a match with two h2h markets, a
\* bookmaker of which carried a market that is not h2h.
C17_Witness ==
    /\ pc = "done"
    /\ passed
    /\ h2h >= 2
    /\ Yields(mi) # {}

\* C18: a step that reads an h2h quote without a name or without a price
\* leaves the best odds and the Opportunities as they are and the scan in the
\* outcome loop; and the best odds hold, before and after, the highest price of
\* every name quoted with a name and a price other than 0, and no other name.
C18_LackingQuoteDropped ==
    [][/\ dropped' = dropped + 1 =>
            /\ best_odds' = best_odds
            /\ opportunities' = opportunities
            /\ pc' = "outcome"
       /\ DOMAIN best_odds' \subseteq DOMAIN quoted'
       /\ \A n \in DOMAIN quoted' :
            quoted'[n].max # 0 =>
                /\ n \in DOMAIN best_odds'
                /\ best_odds'[n].price = quoted'[n].max]_vars

\* C18's case: an Opportunity was returned for a match of which an h2h quote
\* lacked its name or its price.
C18_Witness ==
    /\ pc = "done"
    /\ dropped >= 1
    /\ Yields(mi) # {}
    /\ \A n \in DOMAIN best_odds : best_odds[n].price > 0

C20_EnginesAgree ==
    engine # Idle =>
        /\ engine.state = "done"
        /\ Len(engine.opportunities) = Len(result)
        /\ \A i \in DOMAIN result \cap DOMAIN engine.opportunities :
              /\ engine.opportunities[i].outcomes = result[i].outcomes
              /\ engine.opportunities[i].margin = result[i].arbitrage_value

\* C21: arbitrage_engine's function never fails on a quote of price 0 or of a
\* negative price: it returns a list, and no opportunity in it has a best
\* price that is 0 or negative.
C21_EngineNoDivisionByZero ==
    engine # Idle =>
        /\ engine.state = "done"
        /\ \A i \in DOMAIN engine.opportunities :
              \A n \in DOMAIN engine.opportunities[i].outcomes :
                  engine.opportunities[i].outcomes[n].price > 0

\* An event of two or more bookmakers with h2h markets whose best prices, all
\* positive, have reciprocals summing to less than one.
ArbEvent(e) ==
    LET bo == EngineBest(e, 1, 1, Empty)
    IN  /\ Cardinality({b \in DOMAIN e : e[b].h2h}) >= 2
        /\ Cardinality(DOMAIN bo) >= 2
        /\ \A n \in DOMAIN bo : bo[n].price > 0
        /\ SumRecip(bo, DOMAIN bo) < Unit

\* The pipeline returned a report with an entry for the i-th fetched event.
Listed(i) ==
    /\ report = "report"
    /\ \E k \in DOMAIN all_opportunities : all_opportunities[k].event = i

\* C22: when run_arbitrage_scan_pipeline has returned, every fetched event of
\* two or more bookmakers whose best h2h prices have a reciprocal sum below 1
\* has an entry in the report, and the 'No significant arbitrage opportunities
\* found' message is returned only when no fetched event is such.
C22_PipelineReportsArbitrage ==
    report \in {"message", "report", "error"} =>
        /\ \A i \in DOMAIN fetched : ArbEvent(fetched[i]) => Listed(i)
        /\ report = "message" => \A i \in DOMAIN fetched : ~ArbEvent(fetched[i])

\* The entry get_odds stores for the call of the frame.
Stored_(frame) == [timestamp |-> IsoFormat(frame.stamp), data |-> frame.odds_data]

\* C23: a call of get_odds that finds in the cache an entry for its key less
\* than 600 seconds old returns that entry's data at once, without a request
\* to the API; one that finds no entry, or one 600 seconds old or older, is not
\* served from the cache but goes on to fetch; and a call whose request
\* succeeded stores the answer under its key with the time of now and returns it.
C23_ServedFromCache ==
    [][\A t \in threads :
        /\ (get_odds[t].pc = "out" /\ get_odds'[t] # get_odds[t]) =>
              LET key == get_odds'[t].key
                  held == cache_file.readable /\ key \in DOMAIN cache_file.entries
              IN  IF held /\ now - FromIsoFormat(cache_file.entries[key].timestamp) < 600
                  THEN /\ get_odds'[t].pc = "out"
                       /\ get_odds'[t].why = "cache"
                       /\ get_odds'[t].ret = cache_file.entries[key].data
                  ELSE \/ get_odds'[t].pc = "request"
                       \/ get_odds'[t].pc = "out" /\ get_odds'[t].why = "nokey"
        /\ (get_odds[t].pc = "update" /\ get_odds'[t].pc = "dump") =>
              get_odds'[t].stamp = now
        /\ (get_odds[t].pc = "dump" /\ get_odds'[t].pc = "out") =>
              /\ get_odds'[t].why = "fetched"
              /\ get_odds'[t].ret = get_odds[t].odds_data
              /\ cache_file'.readable
              /\ get_odds[t].key \in DOMAIN cache_file'.entries
              /\ cache_file'.entries[get_odds[t].key] = Stored_(get_odds[t])]_vars

\* A call is served, 300 seconds after the thread stored it, the entry of an
\* earlier call.
C23_Witness ==
    /\ 1 \in threads
    /\ get_odds[1].pc = "out"
    /\ get_odds[1].why = "cache"
    /\ now - get_odds[1].stamp = Step
    /\ cache_file.readable
    /\ get_odds[1].key \in DOMAIN cache_file.entries
    /\ cache_file.entries[get_odds[1].key] = Stored_(get_odds[1])
    /\ get_odds[1].ret = get_odds[1].odds_data
    /\ get_odds[1].ret # <<>>

\* C27: a call of get_odds that has to fetch and fails, for want of an API key
\* or by a request error, returns [] and leaves the cache file as it was.
C27_FailedFetchKeepsCache ==
    [][\A t \in threads :
        (/\ get_odds'[t] # get_odds[t]
         /\ get_odds'[t].pc = "out"
         /\ get_odds'[t].why \in {"nokey", "failed"}) =>
            /\ get_odds'[t].ret = <<>>
            /\ cache_file' = cache_file]_vars

\* A request has failed for a key whose entry in the cache is 600 seconds old
\* or older, and the entry is still there.
C27_Witness ==
    /\ 1 \in threads
    /\ get_odds[1].pc = "out"
    /\ get_odds[1].why = "failed"
    /\ cache_file.readable
    /\ get_odds[1].key \in DOMAIN cache_file.entries
    /\ now - FromIsoFormat(cache_file.entries[get_odds[1].key].timestamp) >= 600
    /\ cache_file.entries[get_odds[1].key].data # <<>>

\* C28: when two threads have each fetched and returned the odds of a key of
\* its own, the cache file holds the entries of both.
C28_NoLostCacheUpdate ==
    (/\ threads = {1, 2}
     /\ \A t \in threads : get_odds[t].pc = "out" /\ get_odds[t].why = "fetched"
     /\ get_odds[1].key # get_odds[2].key) =>
        /\ cache_file.readable
        /\ \A t \in threads :
              /\ get_odds[t].key \in DOMAIN cache_file.entries
              /\ cache_file.entries[get_odds[t].key] = Stored_(get_odds[t])

\* The jobs a run has picked up.
PickedUp(r) == {main[r].pending_jobs[i] : i \in DOMAIN main[r].pending_jobs}

\* C24: when main has returned, it has been through every job it picked up,
\* and each of them is deleted from the queue or has the status 'failed'; none
\* is left 'processing'.
C24_JobsDeletedOrFailed ==
    \A r \in runs :
        main[r].pc = "returned" =>
            /\ main[r].k = Len(main[r].pending_jobs)
            /\ \A j \in PickedUp(r) : queue[j] \in {"deleted", "failed"}

\* C25: when main has returned, the chat of each job it picked up has received
\* exactly one message: the result, the job being deleted, or the apology, the
\* job being 'failed'.
C25_ExactlyOneMessage ==
    \A r \in runs :
        main[r].pc = "returned" =>
            \A j \in PickedUp(r) :
                \/ inbox[j] = <<"result">> /\ queue[j] = "deleted"
                \/ inbox[j] = <<"apology">> /\ queue[j] = "failed"

\* C26: no job has its pipeline run more than once, nor its result sent more
\* than once, whatever the runs of main.
C26_ProcessedAtMostOnce ==
    \A j \in DOMAIN ran :
        /\ ran[j] <= 1
        /\ Cardinality({i \in DOMAIN inbox[j] : inbox[j][i] = "result"}) <= 1

\* C29: a step of main of check_results_worker.py changes a row of the table
\* only in its status, only from 'Pending', only to 'Correct' or 'Incorrect',
\* and only for the prediction it has read an event for, three hours or more
\* after the match commenced, with both scores present and integers.
C29_OnlyPendingSettled ==
    [][\A id \in PredictionIds :
        history'[id] # history[id] =>
            /\ history[id].status = "Pending"
            /\ history'[id].status \in {"Correct", "Incorrect"}
            /\ history'[id].predicted_winner = history[id].predicted_winner
            /\ seen'.id = id
            /\ seen'.elapsed >= 3
            /\ seen'.found
            /\ seen'.intHomeScore \in {"0", "1"}
            /\ seen'.intAwayScore \in {"0", "1"}]_vars

\* A pending prediction has been settled as 'Correct' three hours after the
\* match commenced, beside a prediction that was settled before the run.
C29_Witness ==
    /\ seen.id \in PredictionIds
    /\ seen.elapsed = HoursToWait
    /\ seen.new_status = "Correct"
    /\ history[seen.id].status = "Correct"
    /\ \E i \in DOMAIN checker.pending_predictions :
          checker.pending_predictions[i] = seen.id
    /\ \E id \in PredictionIds :
          /\ history[id].status = "Incorrect"
          /\ \A i \in DOMAIN checker.pending_predictions :
                checker.pending_predictions[i] # id

\* The winner of the event read: the home team if the home score is higher,
\* the away team if the away score is higher, 'Draw' if they are equal.
WinnerOf(read) ==
    IF read.intHomeScore = "1" /\ read.intAwayScore = "0" THEN read.strHomeTeam
    ELSE IF read.intHomeScore = "0" /\ read.intAwayScore = "1" THEN read.strAwayTeam
    ELSE Draw

\* C30: the status main has set for a prediction is 'Correct' exactly when the
\* predicted winner is the winner of the event, the case of letters apart, and
\* 'Incorrect' otherwise.
C30_CorrectIffWinner ==
    seen.new_status # "" =>
        /\ seen.new_status \in {"Correct", "Incorrect"}
        /\ seen.new_status = "Correct" <=>
              Lower(history[seen.id].predicted_winner) = Lower(WinnerOf(seen))

====
